---------------------------- MODULE Spec2Model ----------------------------
(***************************************************************************)
(* A model of PiThermalCam: the per-frame pipeline of pi_therm_cam.py      *)
(* (capture, range, rescale, dead-pixel repair, render, overlay, colorbar),*)
(* the colormap / interpolation cycling, and the helper functions of       *)
(* dead_pixels.py and colorbar.py.                                         *)
(*                                                                         *)
(* Numbers.  A finite float is modelled by the exact rational it stands    *)
(* for, a pair <<n, d>> in lowest terms with d > 0: -273.15 is             *)
(* <<-5463, 20>>, the uint8 value 37 is <<37, 1>>.  Float rounding is not  *)
(* modelled.  The non-finite results of a float division (nan, +inf, -inf) *)
(* are modelled where the code can produce them (FloatDiv).                *)
(*                                                                         *)
(* Arrays.  A numpy array is a record [shape, dtype, data]: data is the    *)
(* row-major sequence of its cells.  The sensor grid is Rows x Cols        *)
(* (24 x 32 in the program, a bound here).                                 *)
(***************************************************************************)
EXTENDS Integers, Sequences, FiniteSets, TLC

VARIABLES
    colormap_index,            \* PiThermalCam._colormap_index
    interpolation_index,       \* PiThermalCam._interpolation_index
    use_f,                     \* PiThermalCam.use_f
    filter_image,              \* PiThermalCam.filter_image
    temp_min,                  \* PiThermalCam._temp_min: <<>> is None, <<t>> a value
    temp_max,                  \* PiThermalCam._temp_max
    raw_image,                 \* PiThermalCam._raw_image
    image,                     \* PiThermalCam._image
    current_frame_processed,   \* PiThermalCam._current_frame_processed
    pc,                        \* life of the object: "new", "live", "failed"
    build,                     \* the platform numpy was built for
    dead_px,                   \* the sensor's broken cells (flat indices)
    last_call,                 \* what the most recent method call did
    cm_log,                    \* the last change_colormap calls
    h_pc,                      \* direct calls of the helper functions:
    h_in,                      \*   the arguments drawn,
    h_out                      \*   and what the call returned

vars == <<colormap_index, interpolation_index, use_f, filter_image, temp_min,
          temp_max, raw_image, image, current_frame_processed, pc, build,
          dead_px, last_call, cm_log, h_pc, h_in, h_out>>

camVars == <<colormap_index, interpolation_index, use_f, filter_image, temp_min,
             temp_max, raw_image, image, current_frame_processed, pc, build,
             dead_px, last_call, cm_log>>

(***************************************************************************)
(* Bounds of the model.                                                    *)
(***************************************************************************)
Rows == 3
Cols == 4
MaxDead == 2
NumPatterns == 4

NumCells == Rows * Cols

\* Body(v), with v evaluated once and bound to its value.
Let(v, Body(_)) == CHOOSE y \in { Body(x) : x \in {v} } : TRUE

(***************************************************************************)
(* Exact rational arithmetic.                                              *)
(***************************************************************************)
Abs(x) == IF x < 0 THEN -x ELSE x

RECURSIVE Gcd(_, _)
Gcd(a, b) == IF b = 0 THEN a ELSE Gcd(b, a % b)

Rat(n, d) ==
    LET g == Gcd(Abs(n), Abs(d))
        s == IF d < 0 THEN -1 ELSE 1
    IN  <<(s * n) \div g, (s * d) \div g>>

Zero == <<0, 1>>

RInt(k) == <<k, 1>>

RAdd(a, b) ==
    LET g == Gcd(a[2], b[2])
        l == (a[2] \div g) * b[2]
    IN  Rat(a[1] * (l \div a[2]) + b[1] * (l \div b[2]), l)

RNeg(a) == <<-a[1], a[2]>>

RSub(a, b) == RAdd(a, RNeg(b))

RMul(a, b) ==
    LET g1 == Gcd(Abs(a[1]), b[2])
        g2 == Gcd(Abs(b[1]), a[2])
    IN  Rat((a[1] \div g1) * (b[1] \div g2), (a[2] \div g2) * (b[2] \div g1))

RInv(a) == IF a[1] < 0 THEN <<-a[2], -a[1]>> ELSE <<a[2], a[1]>>

RDiv(a, b) == RMul(a, RInv(b))

RLt(a, b) == RSub(a, b)[1] < 0

RLeq(a, b) == RSub(a, b)[1] <= 0

\* Truncation toward zero, as a C cast of a float to an integer does.
RTrunc(a) == IF a[1] >= 0 THEN a[1] \div a[2] ELSE -((-a[1]) \div a[2])

\* Floor, as Python's and numpy's % on floats use.
RFloor(a) == a[1] \div a[2]

RECURSIVE SumOver(_, _)
SumOver(data, S) ==
    IF S = {} THEN Zero
    ELSE LET i == CHOOSE x \in S : TRUE
         IN  RAdd(data[i], SumOver(data, S \ {i}))

RMin(S) == CHOOSE x \in S : \A y \in S : RLeq(x, y)

RMax(S) == CHOOSE x \in S : \A y \in S : RLeq(y, x)

(***************************************************************************)
(* numpy arrays.                                                           *)
(***************************************************************************)
Array(shape, dtype, data) == [shape |-> shape, dtype |-> dtype, data |-> data]

NoArray == Array(<<>>, "none", <<>>)

\* np.zeros((24 * 32,)): one-dimensional, float64.
Zeros1D == Array(<<NumCells>>, "float64", [i \in 1..NumCells |-> Zero])

\* The flat index (from 1) of cell [r, c] (from 0) of a two-dimensional array.
Flat(shape, r, c) == r * shape[2] + c + 1

RowOf(shape, i) == (i - 1) \div shape[2]

ColOf(shape, i) == (i - 1) % shape[2]

Max2(a, b) == IF a > b THEN a ELSE b

Min2(a, b) == IF a < b THEN a ELSE b

(***************************************************************************)
(* dead_pixels.py                                                          *)
(***************************************************************************)
\* The literal -273.15 of fix_broken_pixels.
Sentinel == Rat(-27315, 100)

\* The literal -50 of get_min_max.
DeadThreshold == RInt(-50)

\* np.argwhere(image == -273.15): the matching cells in row-major order, as
\* the increasing sequence of their flat indices.
RECURSIVE ArgWhereFrom(_, _, _)
ArgWhereFrom(data, v, i) ==
    IF i > Len(data) THEN <<>>
    ELSE IF data[i] = v THEN <<i>> \o ArgWhereFrom(data, v, i + 1)
    ELSE ArgWhereFrom(data, v, i + 1)

ArgWhere(img, v) == ArgWhereFrom(img.data, v, 1)

\* image[max(0, r-1) : min(shape[0], r+2), max(0, c-1) : min(shape[1], c+2)],
\* as the set of the flat indices the slice views.
Surrounding(shape, px) ==
    LET r == RowOf(shape, px)
        c == ColOf(shape, px)
    IN  { Flat(shape, rr, cc) :
            rr \in Max2(0, r - 1) .. (Min2(shape[1], r + 2) - 1),
            cc \in Max2(0, c - 1) .. (Min2(shape[2], c + 2) - 1) }

\* A mutant of _fix_dead_pixel_value: divides by the size of the
\* neighbourhood instead of the size minus one.
FixDeadPixelValueDivBySize(px, img) ==
    LET surrounding == Surrounding(img.shape, px)
        average == RDiv(SumOver(img.data, surrounding),
                        RInt(Cardinality(surrounding)))
    IN  [img EXCEPT !.data[px] = average]

\* A mutant of _fix_dead_pixel_value: writes the average one cell further.
FixDeadPixelValueWrongCell(px, img) ==
    LET surrounding == Surrounding(img.shape, px)
        average == RDiv(SumOver(img.data, surrounding),
                        RInt(Cardinality(surrounding) - 1))
    IN  [img EXCEPT !.data[(px % Len(img.data)) + 1] = average]

\* _fix_dead_pixel_value(px, image): the image after the assignment.  The
\* slice is a view, so the sum reads the image as it is now.
FixDeadPixelValue(px, img) ==
    LET surrounding == Surrounding(img.shape, px)
        average == RDiv(SumOver(img.data, surrounding),
                        RInt(Cardinality(surrounding) - 1))
    IN  [img EXCEPT !.data[px] = average]

RECURSIVE FixEach(_, _)
FixEach(dead_pixels, img) ==
    IF dead_pixels = <<>> THEN img
    ELSE Let(FixDeadPixelValue(Head(dead_pixels), img),
             LAMBDA fixed : FixEach(Tail(dead_pixels), fixed))

\* A mutant of fix_broken_pixels: every average is taken from a read-only
\* snapshot of the image as it was when the call began.
RECURSIVE FixEachSnapshot(_, _, _)
FixEachSnapshot(dead_pixels, snapshot, img) ==
    IF dead_pixels = <<>> THEN img
    ELSE Let([img EXCEPT !.data[Head(dead_pixels)] =
                FixDeadPixelValue(Head(dead_pixels), snapshot).data[Head(dead_pixels)]],
             LAMBDA fixed : FixEachSnapshot(Tail(dead_pixels), snapshot, fixed))

FixBrokenPixelsSnapshot(img) ==
    FixEachSnapshot(ArgWhere(img, Sentinel), img, img)

\* fix_broken_pixels(image): the image after the loop.
FixBrokenPixels(img) == FixEach(ArgWhere(img, Sentinel), img)

\* The result of a call that may raise.
Returned(v) == [raised |-> "none", value |-> v]

Raised(e) == [raised |-> e, value |-> <<>>]

\* A mutant of get_min_max: the minimum skips only the cells that hold the
\* sentinel itself.
GetMinMaxSkipSentinelOnly(img, exclude_dead_px) ==
    LET all == { img.data[i] : i \in 1..Len(img.data) }
        live == { v \in all : v # Sentinel }
    IN  IF exclude_dead_px /\ live = {} THEN Raised("ValueError")
        ELSE Returned(<<IF exclude_dead_px THEN RMin(live) ELSE RMin(all), RMax(all)>>)

\* get_min_max(raw_image, exclude_dead_px).  np.min of an empty selection
\* raises ValueError.
GetMinMax(img, exclude_dead_px) ==
    LET all == { img.data[i] : i \in 1..Len(img.data) }
        live == { v \in all : RLt(DeadThreshold, v) }
    IN  IF exclude_dead_px /\ live = {} THEN Raised("ValueError")
        ELSE Returned(<<IF exclude_dead_px THEN RMin(live) ELSE RMin(all), RMax(all)>>)

(***************************************************************************)
(* The frames the sensor can hand over.  A frame is a scene (one of a few  *)
(* temperature patterns) read through a sensor whose cells in `dead` fail  *)
(* and carry the sentinel.  Scene 1 is flat; the later scenes hold cells   *)
(* at and below -50 that are not sentinels.                                *)
(***************************************************************************)
Patterns == 1..NumPatterns

DeadSets == { D \in SUBSET (1..NumCells) : Cardinality(D) <= MaxDead }

SceneTemp(p, i) ==
    IF p = 1 THEN RInt(25)
    ELSE IF p >= 3 /\ (i + p) % 5 = 0
         THEN (IF p % 2 = 1 THEN RInt(-60) ELSE RInt(-50))
    ELSE Rat(40 + (p - 1) * ((3 * i + p) % 7), 2)

FrameOf(p, dead) ==
    Array(<<NumCells>>, "float64",
          [i \in 1..NumCells |-> IF i \in dead THEN Sentinel ELSE SceneTemp(p, i)])

\* A frame whose cells all hold t.
FlatFrame(t) == Array(<<NumCells>>, "float64", [i \in 1..NumCells |-> t])

\* Every cell failed.
AllDeadFrame == FlatFrame(Sentinel)

\* The frame as a Rows x Cols grid (frame.reshape(24, 32)).
Reshape2D(frame) == [frame EXCEPT !.shape = <<Rows, Cols>>]


(***************************************************************************)
(* pi_therm_cam.py: _temps_to_rescaled_uints                               *)
(***************************************************************************)
\* The platforms numpy is built for.  np.uint8(x) of a float outside 0..255
\* (or not finite) is undefined in C, and each build does what its
\* conversion instruction does: x86-64 converts to a signed 32-bit integer
\* (cvttsd2si, which gives 0x80000000 for nan and the infinities) and keeps
\* the low byte; aarch64 (the Raspberry Pi) converts to an unsigned 32-bit
\* integer with saturation (fcvtzu: nan and negatives give 0, +inf gives
\* 0xFFFFFFFF) and keeps the low byte.
Builds == {"x86_64", "aarch64"}

Finite(v) == [kind |-> "finite", v |-> v]

NonFinite(k) == [kind |-> k, v |-> Zero]

\* num / den in float arithmetic: dividing by zero raises nothing in numpy,
\* it gives nan (0/0) or an infinity.
FloatDiv(num, den) ==
    IF den[1] # 0 THEN Finite(RDiv(num, den))
    ELSE IF num[1] = 0 THEN NonFinite("nan")
    ELSE IF num[1] > 0 THEN NonFinite("+inf")
    ELSE NonFinite("-inf")

\* A mutant of the cast: nan becomes 255.
CastUint8NanHigh(x, b) ==
    IF x.kind = "nan" THEN 255
    ELSE IF x.kind # "finite" THEN 0
    ELSE RTrunc(x.v) % 256

\* np.uint8(x) for one cell on build b.  The truncated values of the model
\* stay far inside the 32-bit range of the conversion instructions.
CastUint8(x, b) ==
    IF x.kind = "nan" THEN 0
    ELSE IF x.kind = "-inf" THEN 0
    ELSE IF x.kind = "+inf" THEN (IF b = "aarch64" THEN 255 ELSE 0)
    ELSE Let(RTrunc(x.v), LAMBDA t :
            IF t >= 0 THEN t % 256
            ELSE IF b = "aarch64" THEN 0
            ELSE t % 256)

\* A mutant of _temps_to_rescaled_uints: a scalar division, which raises
\* when the range is empty.
TempsToRescaledUintsScalarDiv(f, Tmin, Tmax, b) ==
    IF Tmax = Tmin THEN Raised("ZeroDivisionError")
    ELSE Returned(Array(<<Rows, Cols>>, "uint8",
            [i \in 1..Len(f.data) |->
                Let(FloatDiv(RMul(RSub(f.data[i], Tmin), RInt(255)), RSub(Tmax, Tmin)),
                    LAMBDA x : RInt(CastUint8(x, b)))]))

\* _temps_to_rescaled_uints(f, Tmin, Tmax) on build b.  The frames of the
\* model hold no nan, so np.nan_to_num changes nothing.
TempsToRescaledUints(f, Tmin, Tmax, b) ==
    Returned(Array(<<Rows, Cols>>, "uint8",
        [i \in 1..Len(f.data) |->
            Let(FloatDiv(RMul(RSub(f.data[i], Tmin), RInt(255)), RSub(Tmax, Tmin)),
                LAMBDA x : RInt(CastUint8(x, b)))]))

(***************************************************************************)
(* colorbar.py                                                             *)
(***************************************************************************)
\* x % step on floats, for step > 0: the remainder of the floor division.
RMod(x, step) == RSub(x, RInt(step * RFloor(RDiv(x, RInt(step)))))

\* np.arange(start, stop, step): ceil((stop - start) / step) values from
\* start on, none when that is not positive.
ARange(start, stop, step) ==
    Let(-RFloor(RNeg(RDiv(RSub(stop, start), RInt(step)))), LAMBDA n :
        [k \in 1..(IF n > 0 THEN n ELSE 0) |-> RAdd(start, RInt((k - 1) * step))])

\* np.interp(x, [x0, x1], [f0, f1]) for one x.
Interp(x, x0, x1, f0, f1) ==
    IF RLt(x1, x) THEN f1
    ELSE IF RLt(x, x0) THEN f0
    ELSE IF RLeq(x1, x) THEN f1
    ELSE IF x = x0 THEN f0
    ELSE RAdd(RMul(RDiv(RSub(f1, f0), RSub(x1, x0)), RSub(x, x0)), f0)

Ticks(t_ticks, t_pos) == [t_ticks |-> t_ticks, t_pos |-> t_pos]

\* A mutant of get_t_ticks: the sequence starts at the multiple of step at
\* or below tmin.
GetTTicksFromFloor(tmin, tmax, step, bounds) ==
    Let([k \in DOMAIN ARange(RSub(tmin, RMod(tmin, step)),
                             RAdd(RSub(tmax, RMod(tmax, step)), RInt(step)), step) |->
            RTrunc(ARange(RSub(tmin, RMod(tmin, step)),
                          RAdd(RSub(tmax, RMod(tmax, step)), RInt(step)), step)[k])],
        LAMBDA t_ticks :
        Ticks(t_ticks,
              [k \in DOMAIN t_ticks |->
                  RTrunc(Interp(RInt(t_ticks[k]), tmin, tmax,
                                RInt(bounds[1]), RInt(bounds[2])))]))

\* get_t_ticks(tmin, tmax, step, bounds): the tick temperatures and their
\* rows, both cast to int.
GetTTicks(tmin, tmax, step, bounds) ==
    Let(ARange(RAdd(RSub(tmin, RMod(tmin, step)), RInt(step)),
               RAdd(RSub(tmax, RMod(tmax, step)), RInt(step)), step),
        LAMBDA arange :
    Let([k \in DOMAIN arange |-> RTrunc(arange[k])], LAMBDA t_ticks :
        Ticks(t_ticks,
              [k \in DOMAIN t_ticks |->
                  RTrunc(Interp(RInt(t_ticks[k]), tmin, tmax,
                                RInt(bounds[1]), RInt(bounds[2])))])))

\* The bounds get_colorbar passes: [v_margin + c_bar.shape[0], v_margin].
ColorbarBounds(v_margin, height) == <<v_margin + height, v_margin>>

(***************************************************************************)
(* pi_therm_cam.py: the colormap and interpolation selection               *)
(***************************************************************************)
ColormapList ==
    <<"jet", "bwr", "seismic", "coolwarm", "PiYG_r", "tab10", "tab20", "gnuplot2", "brg">>

InterpolationListName ==
    <<"Nearest", "Inter Linear", "Inter Area", "Inter Cubic", "Inter Lanczos4",
      "Pure Scipy", "Scipy/CV2 Mixed">>

\* A mutant of the cycling: the index leaves the list instead of wrapping.
CycleIndexNoWrap(index, length, forward) ==
    IF forward THEN index + 1 ELSE index - 1

\* A mutant of the cycling: stepping back from 0 lands one short of the end.
CycleIndexShortWrap(index, length, forward) ==
    IF forward
    THEN (IF index + 1 = length THEN 0 ELSE index + 1)
    ELSE (IF index - 1 < 0 THEN length - 2 ELSE index - 1)

\* The body shared by change_colormap and change_interpolation: the index
\* after the call, for a list of `length` entries.
CycleIndex(index, length, forward) ==
    IF forward
    THEN (IF index + 1 = length THEN 0 ELSE index + 1)
    ELSE (IF index - 1 < 0 THEN length - 1 ELSE index - 1)

\* The last calls of change_colormap, at most as many as there are colormaps.
Logged(log, entry) ==
    IF Len(log) < Len(ColormapList) THEN Append(log, entry)
    ELSE Append(Tail(log), entry)

(***************************************************************************)
(* pi_therm_cam.py: the pipeline                                           *)
(***************************************************************************)
None == <<>>

Some(v) == <<v>>

\* What mlx.getFrame can do in one capture with the cells in `dead` broken:
\* fill the frame (with a scene, or with every cell failed), or raise.
Captures(dead) ==
    { Returned(FrameOf(p, dead)) : p \in Patterns }
        \cup { Returned(AllDeadFrame), Raised("ValueError"), Raised("OSError") }

Caught == {"ValueError", "OSError"}

\* The fields _pull_raw_image leaves, with what it did: `raised` is the
\* exception it lets through, `caught` the one it swallowed, `captured` the
\* frame getFrame filled, `dead_found` the cells fix_broken_pixels repaired.
PullResult(raw, tmin, tmax, processed, raised, caught, captured, found) ==
    [raw_image |-> raw, temp_min |-> tmin, temp_max |-> tmax,
     current_frame_processed |-> processed, raised |-> raised, caught |-> caught,
     captured |-> captured, dead_found |-> found]

\* The try block of _pull_raw_image once get_min_max has returned mm.
PullRescaleAndFix(tmin0, tmax0, processed0, frame, mm, b) ==
    Let(<<mm[1], RMax({ frame.data[i] : i \in 1..Len(frame.data) })>>, LAMBDA t :
    Let(TempsToRescaledUints(frame, t[1], t[2], b), LAMBDA rs :
        IF rs.raised # "none"
        THEN IF rs.raised \in Caught
             THEN PullResult(Zeros1D, Some(t[1]), Some(t[2]), processed0, "none",
                             rs.raised, frame, <<>>)
             ELSE PullResult(frame, Some(t[1]), Some(t[2]), processed0, rs.raised,
                             "none", frame, <<>>)
        ELSE PullResult(FixBrokenPixels(rs.value), Some(t[1]), Some(t[2]), FALSE,
                        "none", "none", frame, ArgWhere(rs.value, Sentinel))))

\* _pull_raw_image with the outcome of mlx.getFrame, on build b.
PullRawImage(tmin0, tmax0, processed0, capture, b) ==
    IF capture.raised # "none"
    THEN PullResult(Zeros1D, tmin0, tmax0, processed0, "none", capture.raised,
                    NoArray, <<>>)
    ELSE Let(GetMinMax(capture.value, TRUE), LAMBDA mm :
            IF mm.raised # "none"
            THEN IF mm.raised \in Caught
                 THEN PullResult(Zeros1D, tmin0, tmax0, processed0, "none", mm.raised,
                                 capture.value, <<>>)
                 ELSE PullResult(capture.value, tmin0, tmax0, processed0, mm.raised,
                                 "none", capture.value, <<>>)
            ELSE PullRescaleAndFix(tmin0, tmax0, processed0, capture.value,
                                   mm.value, b))

\* self._image: how far the rendering of `grid` got.
Image(stage, grid, cmap, interp, filtered, text, colorbar) ==
    [stage |-> stage, grid |-> grid, cmap |-> cmap, interp |-> interp,
     filtered |-> filtered, text |-> text, colorbar |-> colorbar]

NoImage == Image("none", NoArray, 0, 0, FALSE, <<>>, <<>>)

\* _process_raw_image.  cv2.applyColorMap takes 8-bit images only and raises
\* cv2.error for any other; the two scipy branches assign the zoomed array
\* to self._image before they colour it.
ProcessRawImage(img0, raw, cmap, interp, filtered) ==
    IF raw.dtype = "uint8"
    THEN [raised |-> "none", image |-> Image("flipped", raw, cmap, interp, filtered, <<>>, <<>>)]
    ELSE IF interp \in {5, 6}
    THEN [raised |-> "cv2.error", image |-> Image("zoomed", raw, cmap, interp, FALSE, <<>>, <<>>)]
    ELSE [raised |-> "cv2.error", image |-> img0]

\* _c_to_f
CToF(t) == RAdd(RMul(Rat(9, 5), t), RInt(32))

\* _get_temperature_to_unit on a range that is set.
GetTemperatureToUnit(tmin, tmax, f) ==
    IF f THEN <<CToF(tmin[1]), CToF(tmax[1]), "F">>
    ELSE <<tmin[1], tmax[1], "C">>

\* _add_image_text: formatting (or converting) a range that is still None
\* raises TypeError.
AddImageText(img, tmin, tmax, f) ==
    IF tmin = None \/ tmax = None
    THEN [raised |-> "TypeError", image |-> img]
    ELSE [raised |-> "none",
          image |-> [img EXCEPT !.stage = "text",
                                !.text = GetTemperatureToUnit(tmin, tmax, f)]]

\* _append_colorbar: the bar is built for the range in the display unit.
\* The model keeps no pixel geometry (the sizes and margins come from the
\* configuration file): get_colorbar and cv2.hconcat are taken to succeed,
\* as they have on any camera whose constructor returned.
AppendColorbar(img, tmin, tmax, f) ==
    [img EXCEPT !.stage = "complete",
                !.colorbar = <<GetTemperatureToUnit(tmin, tmax, f)[1],
                               GetTemperatureToUnit(tmin, tmax, f)[2]>>]

\* What a method call did, for the properties to read.
Call(op, raised, pull, handed, rendered) ==
    [op |-> op, raised |-> raised, pulled |-> pull # <<>>,
     caught |-> IF pull = <<>> THEN "none" ELSE pull[1].caught,
     captured |-> IF pull = <<>> THEN NoArray ELSE pull[1].captured,
     dead_found |-> IF pull = <<>> THEN <<>> ELSE pull[1].dead_found,
     handed |-> handed, rendered |-> rendered]

NoCall == Call("none", "none", <<>>, NoArray, FALSE)

\* update_image_frame with the capture's outcome: the fields it leaves and
\* the exception it lets through.
UpdateResult(pull, img, processed, raised, handed, rendered) ==
    [raw_image |-> pull.raw_image, temp_min |-> pull.temp_min,
     temp_max |-> pull.temp_max, image |-> img,
     current_frame_processed |-> processed,
     call |-> Call("update_image_frame", raised, <<pull>>, handed, rendered)]

RunUpdateImageFrame(capture) ==
    Let(PullRawImage(temp_min, temp_max, current_frame_processed, capture, build),
        LAMBDA pull :
    IF pull.raised # "none"
    THEN UpdateResult(pull, image, pull.current_frame_processed, pull.raised,
                      NoArray, FALSE)
    ELSE
    Let(ProcessRawImage(image, pull.raw_image, colormap_index, interpolation_index,
                        filter_image), LAMBDA proc :
    IF proc.raised # "none"
    THEN UpdateResult(pull, proc.image, pull.current_frame_processed, proc.raised,
                      pull.raw_image, FALSE)
    ELSE
    Let(AddImageText(proc.image, pull.temp_min, pull.temp_max, use_f), LAMBDA text :
    IF text.raised # "none"
    THEN UpdateResult(pull, text.image, pull.current_frame_processed, text.raised,
                      pull.raw_image, FALSE)
    ELSE UpdateResult(pull,
                      AppendColorbar(text.image, pull.temp_min, pull.temp_max, use_f),
                      TRUE, "none", pull.raw_image, TRUE))))

\* __init__ up to its last line: the class defaults and the two indices.
InitCam ==
    /\ colormap_index = 0
    /\ interpolation_index = 3
    /\ use_f = FALSE
    /\ filter_image = FALSE
    /\ temp_min = None
    /\ temp_max = None
    /\ raw_image = NoArray
    /\ image = NoImage
    /\ current_frame_processed = FALSE
    /\ pc = "new"
    /\ last_call = NoCall
    /\ cm_log = <<>>

HarnessIdle ==
    /\ h_pc = "idle"
    /\ h_in = <<>>
    /\ h_out = <<>>

\* The failed cells of the camera's sensor: among the first row and the
\* cell under its first cell, so that they come alone, side by side and one
\* above the other.  The pull treats every cell of the frame alike.
DeviceDeadSets == { D \in DeadSets : D \subseteq 1..(Cols + 1) }

Init ==
    /\ InitCam
    /\ build \in Builds
    /\ dead_px \in DeviceDeadSets
    /\ HarnessIdle

ApplyUpdate(r) ==
    /\ raw_image' = r.raw_image
    /\ temp_min' = r.temp_min
    /\ temp_max' = r.temp_max
    /\ image' = r.image
    /\ current_frame_processed' = r.current_frame_processed
    /\ last_call' = r.call

\* The last line of __init__: the first update_image_frame.  If it raises,
\* the constructor raises and there is no object.
Construct ==
    /\ pc = "new"
    /\ \E capture \in Captures(dead_px) :
         \E r \in {RunUpdateImageFrame(capture)} :
            /\ ApplyUpdate(r)
            /\ pc' = IF r.call.raised = "none" THEN "live" ELSE "failed"
    /\ UNCHANGED <<colormap_index, interpolation_index, use_f, filter_image,
                   build, dead_px, cm_log, h_pc, h_in, h_out>>

\* update_image_frame()
UpdateImageFrame ==
    /\ pc = "live"
    /\ \E capture \in Captures(dead_px) :
         \E r \in {RunUpdateImageFrame(capture)} : ApplyUpdate(r)
    /\ UNCHANGED <<colormap_index, interpolation_index, use_f, filter_image, pc,
                   build, dead_px, cm_log, h_pc, h_in, h_out>>

\* update_raw_image_only(): the body names self._pull_raw_image and does not
\* call it.
UpdateRawImageOnly ==
    /\ pc = "live"
    /\ last_call' = Call("update_raw_image_only", "none", <<>>, NoArray, FALSE)
    /\ UNCHANGED <<colormap_index, interpolation_index, use_f, filter_image,
                   temp_min, temp_max, raw_image, image, current_frame_processed,
                   pc, build, dead_px, cm_log, h_pc, h_in, h_out>>

\* get_current_raw_image_frame(): names self._pull_raw_image without calling
\* it, and returns self._raw_image.
GetCurrentRawImageFrame ==
    /\ pc = "live"
    /\ last_call' = Call("get_current_raw_image_frame", "none", <<>>, NoArray, FALSE)
    /\ UNCHANGED <<colormap_index, interpolation_index, use_f, filter_image,
                   temp_min, temp_max, raw_image, image, current_frame_processed,
                   pc, build, dead_px, cm_log, h_pc, h_in, h_out>>

\* get_current_image_frame()
GetResult(img, processed, raised, handed, rendered) ==
    [image |-> img, current_frame_processed |-> processed,
     call |-> Call("get_current_image_frame", raised, <<>>, handed, rendered)]

\* A mutant of get_current_image_frame: it renders on every call.
RunGetCurrentImageFrameAlwaysRenders ==
    Let(ProcessRawImage(image, raw_image, colormap_index, interpolation_index,
                        filter_image), LAMBDA proc :
    IF proc.raised # "none"
    THEN GetResult(proc.image, FALSE, proc.raised, raw_image, FALSE)
    ELSE
    Let(AddImageText(proc.image, temp_min, temp_max, use_f), LAMBDA text :
    IF text.raised # "none"
    THEN GetResult(text.image, FALSE, text.raised, raw_image, FALSE)
    ELSE GetResult(text.image, TRUE, "none", raw_image, TRUE)))

RunGetCurrentImageFrame ==
    IF current_frame_processed
    THEN GetResult(image, TRUE, "none", NoArray, FALSE)
    ELSE
    Let(ProcessRawImage(image, raw_image, colormap_index, interpolation_index,
                        filter_image), LAMBDA proc :
    IF proc.raised # "none"
    THEN GetResult(proc.image, FALSE, proc.raised, raw_image, FALSE)
    ELSE
    Let(AddImageText(proc.image, temp_min, temp_max, use_f), LAMBDA text :
    IF text.raised # "none"
    THEN GetResult(text.image, FALSE, text.raised, raw_image, FALSE)
    ELSE GetResult(text.image, TRUE, "none", raw_image, TRUE)))

GetCurrentImageFrame ==
    /\ pc = "live"
    /\ \E r \in {RunGetCurrentImageFrame} :
         /\ image' = r.image
         /\ current_frame_processed' = r.current_frame_processed
         /\ last_call' = r.call
    /\ UNCHANGED <<colormap_index, interpolation_index, use_f, filter_image,
                   temp_min, temp_max, raw_image, pc, build, dead_px, cm_log,
                   h_pc, h_in, h_out>>

\* change_colormap(forward)
ChangeColormap ==
    /\ pc = "live"
    /\ \E forward \in BOOLEAN :
         /\ colormap_index' = CycleIndex(colormap_index, Len(ColormapList), forward)
         /\ cm_log' = Logged(cm_log, [forward |-> forward, before |-> colormap_index])
    /\ last_call' = Call("change_colormap", "none", <<>>, NoArray, FALSE)
    /\ UNCHANGED <<interpolation_index, use_f, filter_image, temp_min, temp_max,
                   raw_image, image, current_frame_processed, pc, build, dead_px,
                   h_pc, h_in, h_out>>

\* change_interpolation(forward)
ChangeInterpolation ==
    /\ pc = "live"
    /\ \E forward \in BOOLEAN :
         interpolation_index' =
            CycleIndex(interpolation_index, Len(InterpolationListName), forward)
    /\ last_call' = Call("change_interpolation", "none", <<>>, NoArray, FALSE)
    /\ UNCHANGED <<colormap_index, use_f, filter_image, temp_min, temp_max,
                   raw_image, image, current_frame_processed, pc, build, dead_px,
                   cm_log, h_pc, h_in, h_out>>

\* The "f" key of _set_click_keyboard_events.
ToggleFilter ==
    /\ pc = "live"
    /\ filter_image' = ~filter_image
    /\ last_call' = Call("toggle_filter", "none", <<>>, NoArray, FALSE)
    /\ UNCHANGED <<colormap_index, interpolation_index, use_f, temp_min, temp_max,
                   raw_image, image, current_frame_processed, pc, build, dead_px,
                   cm_log, h_pc, h_in, h_out>>

\* The "t" key of _set_click_keyboard_events.
ToggleUnits ==
    /\ pc = "live"
    /\ use_f' = ~use_f
    /\ last_call' = Call("toggle_units", "none", <<>>, NoArray, FALSE)
    /\ UNCHANGED <<colormap_index, interpolation_index, filter_image, temp_min,
                   temp_max, raw_image, image, current_frame_processed, pc, build,
                   dead_px, cm_log, h_pc, h_in, h_out>>

(***************************************************************************)
(* The camera object: construction and the frame methods.                  *)
(***************************************************************************)
Next ==
    \/ Construct
    \/ UpdateImageFrame
    \/ UpdateRawImageOnly
    \/ GetCurrentRawImageFrame
    \/ GetCurrentImageFrame

Spec == Init /\ [][Next]_vars

(***************************************************************************)
(* The render state (colormap, interpolation, filter, unit) of a           *)
(* constructed camera with a sound sensor.                                 *)
(***************************************************************************)
InitCycle ==
    /\ InitCam
    /\ build = "aarch64"
    /\ dead_px = {}
    /\ HarnessIdle

NextCycle ==
    \/ Construct
    \/ ChangeColormap
    \/ ChangeInterpolation
    \/ ToggleFilter
    \/ ToggleUnits

SpecCycle == InitCycle /\ [][NextCycle]_vars

(***************************************************************************)
(* C1.  After any sequence of change_colormap and change_interpolation     *)
(* calls from the initial indices (0 and 3), the colormap index is in      *)
(* 0..8 and the interpolation index in 0..6.                               *)
(***************************************************************************)
C1_IndicesInRange ==
    /\ colormap_index \in 0..8
    /\ interpolation_index \in 0..6
    /\ (pc = "new" => colormap_index = 0 /\ interpolation_index = 3)

\* The colormap index has just wrapped at the end of the list, and the
\* interpolation index sits on the last mode.
C1_Witness ==
    /\ cm_log # <<>>
    /\ cm_log[Len(cm_log)].forward
    /\ cm_log[Len(cm_log)].before = 8
    /\ colormap_index = 0
    /\ interpolation_index = 6

(***************************************************************************)
(* C2.  From every colormap index, nine change_colormap(forward=True)      *)
(* calls in a row lead back to the index they started from, and            *)
(* change_colormap(forward=False) right after change_colormap(forward=True)*)
(* restores the index the forward call started from.                       *)
(***************************************************************************)
C2_NineForwardAndLeftInverse ==
    /\ (Len(cm_log) = 9 /\ \A k \in 1..9 : cm_log[k].forward)
            => colormap_index = cm_log[1].before
    /\ (Len(cm_log) >= 2 /\ cm_log[Len(cm_log) - 1].forward
                         /\ ~cm_log[Len(cm_log)].forward)
            => colormap_index = cm_log[Len(cm_log) - 1].before

\* Nine forward calls in a row that started from index 5, and (second
\* witness state) a forward call from index 8 undone by a backward call.
C2_Witness ==
    /\ Len(cm_log) = 9
    /\ \A k \in 1..9 : cm_log[k].forward
    /\ cm_log[1].before = 5

C2_WitnessInverse ==
    /\ Len(cm_log) >= 2
    /\ cm_log[Len(cm_log) - 1].forward
    /\ cm_log[Len(cm_log) - 1].before = 8
    /\ ~cm_log[Len(cm_log)].forward

(***************************************************************************)
(* C3.  Every update_image_frame run returns without raising and yields a  *)
(* complete image, whatever the capture did: the grid handed to            *)
(* _process_raw_image is a Rows x Cols grid of 8-bit intensities and the   *)
(* temperature range of the overlay and the colorbar is set.               *)
(***************************************************************************)
C3_EveryRunYieldsCompleteImage ==
    last_call.op = "update_image_frame" =>
        /\ last_call.raised = "none"
        /\ last_call.handed.shape = <<Rows, Cols>>
        /\ last_call.handed.dtype = "uint8"
        /\ temp_min # None
        /\ temp_max # None
        /\ image.stage = "complete"

(***************************************************************************)
(* C9.  In a pipeline run every cell that carried the sentinel in the      *)
(* captured frame is found by the repair step (and so replaced by its      *)
(* neighbourhood average) in the grid the run leaves.                      *)
(***************************************************************************)
C9_EverySentinelCellRepaired ==
    (last_call.op = "update_image_frame" /\ last_call.caught = "none"
        /\ last_call.raised = "none") =>
        \A i \in 1..Len(last_call.captured.data) :
            last_call.captured.data[i] = Sentinel =>
                \E k \in 1..Len(last_call.dead_found) : last_call.dead_found[k] = i


(***************************************************************************)
(* Direct calls of the helper functions, each on arguments drawn at the    *)
(* start.  The camera object is not constructed in these specifications.   *)
(***************************************************************************)
FlatTemps == { Sentinel, RInt(-60), RInt(0), Rat(51, 2) }

Frames ==
    { FrameOf(p, D) : p \in Patterns, D \in DeadSets }
        \cup { FlatFrame(t) : t \in FlatTemps }

\* fix_broken_pixels on a float grid that holds the sensor's temperatures.
InitRepair ==
    /\ InitCam
    /\ build = "aarch64"
    /\ dead_px = {}
    /\ h_pc = "ready"
    /\ h_in \in { [image |-> Reshape2D(FrameOf(p, D))] : p \in Patterns, D \in DeadSets }
    /\ h_out = NoArray

CallFixBrokenPixels ==
    /\ h_pc = "ready"
    /\ h_out' = FixBrokenPixels(h_in.image)
    /\ h_pc' = "called"
    /\ UNCHANGED <<camVars, h_in>>

NextRepair == CallFixBrokenPixels

SpecRepair == InitRepair /\ [][NextRepair]_vars

\* get_min_max and _temps_to_rescaled_uints on a frame.
NoResult == [fn |-> "none", exclude_dead_px |-> FALSE, Tmin |-> Zero, Tmax |-> Zero,
             result |-> Raised("none")]

InitNormalize ==
    /\ InitCam
    /\ build \in Builds
    /\ dead_px = {}
    /\ h_pc = "ready"
    /\ h_in \in { [frame |-> f] : f \in Frames }
    /\ h_out = NoResult

CallGetMinMax ==
    /\ h_pc = "ready"
    /\ \E exclude_dead_px \in BOOLEAN :
         h_out' = [fn |-> "get_min_max", exclude_dead_px |-> exclude_dead_px,
                   Tmin |-> Zero, Tmax |-> Zero,
                   result |-> GetMinMax(h_in.frame, exclude_dead_px)]
    /\ h_pc' = "called"
    /\ UNCHANGED <<camVars, h_in>>

\* The ranges a frame is rescaled with: what get_min_max returns for it.
RangesOf(frame) ==
    { GetMinMax(frame, e).value : e \in { x \in BOOLEAN : GetMinMax(frame, x).raised = "none" } }

CallTempsToRescaledUints ==
    /\ h_pc = "ready"
    /\ \E range \in RangesOf(h_in.frame) :
         h_out' = [fn |-> "_temps_to_rescaled_uints", exclude_dead_px |-> FALSE,
                   Tmin |-> range[1], Tmax |-> range[2],
                   result |-> TempsToRescaledUints(h_in.frame, range[1], range[2], build)]
    /\ h_pc' = "called"
    /\ UNCHANGED <<camVars, h_in>>

NextNormalize ==
    \/ CallGetMinMax
    \/ CallTempsToRescaledUints

SpecNormalize == InitNormalize /\ [][NextNormalize]_vars

\* get_t_ticks as get_colorbar calls it.
MaxTickTemp == 6
MaxStep == 2
MaxBarHeight == 4
MaxMargin == 2

TickTemps ==
    { Rat(k, 2) : k \in (-2 * MaxTickTemp)..(2 * MaxTickTemp) }
        \cup { Rat(102, 10), Rat(307, 10) }

TickSteps == (1..MaxStep) \cup {5}

\* The 24 rows of the sensor and the factor of the pure scipy zoom: the
\* image of interpolation mode 5 is 24 * 25 rows high.
SensorRows == 24
ScipyZoom == 25

BarHeights == (1..MaxBarHeight) \cup {SensorRows * ScipyZoom}

TickRanges == { r \in TickTemps \X TickTemps : RLeq(r[1], r[2]) }

InitTicks ==
    /\ InitCam
    /\ build = "aarch64"
    /\ dead_px = {}
    /\ h_pc = "ready"
    /\ h_in \in { [tmin |-> r[1], tmax |-> r[2], step |-> st, v_margin |-> vm,
                    height |-> h] :
                    r \in TickRanges, st \in TickSteps, vm \in 1..MaxMargin,
                    h \in BarHeights }
    /\ h_out = Ticks(<<>>, <<>>)

CallGetTTicks ==
    /\ h_pc = "ready"
    /\ h_out' = GetTTicks(h_in.tmin, h_in.tmax, h_in.step,
                          ColorbarBounds(h_in.v_margin, h_in.height))
    /\ h_pc' = "called"
    /\ UNCHANGED <<camVars, h_in>>

NextTicks == CallGetTTicks

SpecTicks == InitTicks /\ [][NextTicks]_vars


(***************************************************************************)
(* Notions the properties below are stated with.                           *)
(***************************************************************************)
CellRow(i) == (i - 1) \div Cols

CellCol(i) == (i - 1) % Cols

\* The cells at most one row and one column away from cell i, i included.
Neighbourhood(i) ==
    { j \in 1..NumCells : /\ Abs(CellRow(j) - CellRow(i)) <= 1
                          /\ Abs(CellCol(j) - CellCol(i)) <= 1 }

Interior(i) ==
    /\ CellRow(i) \in 1..(Rows - 2)
    /\ CellCol(i) \in 1..(Cols - 2)

SentinelCells(img) == { i \in 1..Len(img.data) : img.data[i] = Sentinel }

IsFlat(frame) == \A i \in 1..Len(frame.data) : frame.data[i] = frame.data[1]

CellValues(frame) == { frame.data[i] : i \in 1..Len(frame.data) }

(***************************************************************************)
(* C4.  Rescaling a frame whose cells all hold the same temperature, with  *)
(* min = max = that temperature, returns a Rows x Cols grid of zeros and   *)
(* raises no division error.                                               *)
(***************************************************************************)
C4_FlatFrameRescalesToZeros ==
    (/\ h_out.fn = "_temps_to_rescaled_uints"
     /\ IsFlat(h_in.frame)
     /\ h_out.Tmin = h_in.frame.data[1]
     /\ h_out.Tmax = h_in.frame.data[1]) =>
        /\ h_out.result.raised = "none"
        /\ h_out.result.value.shape = <<Rows, Cols>>
        /\ h_out.result.value.dtype = "uint8"
        /\ Len(h_out.result.value.data) = NumCells
        /\ \A i \in 1..NumCells : h_out.result.value.data[i] = RInt(0)

\* A flat frame of 25.5 degrees has been rescaled with min = max = 25.5.
C4_Witness ==
    /\ h_out.fn = "_temps_to_rescaled_uints"
    /\ IsFlat(h_in.frame)
    /\ h_in.frame.data[1] = Rat(51, 2)
    /\ h_out.Tmin = Rat(51, 2)
    /\ h_out.Tmax = Rat(51, 2)

(***************************************************************************)
(* C5.  For every frame get_min_max returns, with exclude_dead_px, the     *)
(* minimum over the cells above -50 only, without it the minimum over all  *)
(* cells, and in both cases the maximum over all cells.                    *)
(***************************************************************************)
C5_MinMaxOfEveryFrame ==
    h_out.fn = "get_min_max" =>
        /\ h_out.result.raised = "none"
        /\ h_out.result.value[1] =
              (IF h_out.exclude_dead_px
               THEN RMin({ v \in CellValues(h_in.frame) : RLt(RInt(-50), v) })
               ELSE RMin(CellValues(h_in.frame)))
        /\ h_out.result.value[2] = RMax(CellValues(h_in.frame))

(***************************************************************************)
(* C6.  On a grid with exactly one sentinel cell, not on the border,       *)
(* fix_broken_pixels replaces that cell with the sum of its 3 x 3          *)
(* neighbourhood (all 9 cells, the sentinel included) divided by 8.        *)
(***************************************************************************)
C6_SingleInteriorRepair ==
    h_pc = "called" =>
        \A px \in 1..NumCells :
            (SentinelCells(h_in.image) = {px} /\ Interior(px)) =>
                /\ Cardinality(Neighbourhood(px)) = 9
                /\ h_out.data[px] =
                      RDiv(SumOver(h_in.image.data, Neighbourhood(px)), RInt(8))

\* The call has run on a grid whose one sentinel cell is an interior cell.
C6_Witness ==
    /\ h_pc = "called"
    /\ \E px \in 1..NumCells :
         /\ SentinelCells(h_in.image) = {px}
         /\ Interior(px)
         /\ h_out.data[px] # Sentinel

(***************************************************************************)
(* C8.  fix_broken_pixels changes only cells that hold the sentinel when   *)
(* it is called: every other cell keeps its value, and a grid without a    *)
(* sentinel cell is left as it was.                                        *)
(***************************************************************************)
C8_OnlySentinelCellsChange ==
    h_pc = "called" =>
        /\ h_out.shape = h_in.image.shape
        /\ h_out.dtype = h_in.image.dtype
        /\ Len(h_out.data) = Len(h_in.image.data)
        /\ \A i \in 1..NumCells :
              h_in.image.data[i] # Sentinel => h_out.data[i] = h_in.image.data[i]
        /\ (SentinelCells(h_in.image) = {} => h_out = h_in.image)

\* The call has run on a grid with a sentinel cell next to other cells, and
\* has changed the sentinel cell.
C8_Witness ==
    /\ h_pc = "called"
    /\ \E i \in SentinelCells(h_in.image) :
         /\ h_out.data[i] # Sentinel
         /\ \E j \in Neighbourhood(i) : h_in.image.data[j] # Sentinel

(***************************************************************************)
(* C10.  fix_broken_pixels repairs the sentinel cells in row-major order   *)
(* and in place: the average of a sentinel cell sums, for each sentinel    *)
(* neighbour earlier in row-major order, the value that neighbour was      *)
(* repaired to, and for every other cell of the neighbourhood (itself and  *)
(* the later sentinel neighbours included) the value the grid held when    *)
(* the call began.                                                         *)
(***************************************************************************)
SeenBy(b) ==
    [c \in 1..NumCells |->
        IF c \in SentinelCells(h_in.image) /\ c < b THEN h_out.data[c]
        ELSE h_in.image.data[c]]

C10_CascadeInRowMajorOrder ==
    h_pc = "called" =>
        \A b \in SentinelCells(h_in.image) :
            h_out.data[b] =
                RDiv(SumOver(SeenBy(b), Neighbourhood(b)),
                     RInt(Cardinality(Neighbourhood(b)) - 1))

\* The call has run on a grid with two sentinel cells that are neighbours.
C10_Witness ==
    /\ h_pc = "called"
    /\ \E a \in SentinelCells(h_in.image) :
         \E b \in SentinelCells(h_in.image) \cap Neighbourhood(a) :
            /\ a < b
            /\ h_out.data[a] # Sentinel
            /\ h_out.data[b] # Sentinel

(***************************************************************************)
(* C7.  For min < max and step > 0, get_t_ticks returns exactly the        *)
(* multiples of step above min and not above max, in increasing order, at  *)
(* rows within [v_margin, v_margin + height]; for min = 10.2, max = 30.7   *)
(* and step = 5 the ticks are 15, 20, 25, 30.                              *)
(***************************************************************************)
MultiplesIn(tmin, tmax, step) ==
    { m \in RFloor(tmin)..(RFloor(tmax) + 1) :
        /\ m % step = 0
        /\ RLt(tmin, RInt(m))
        /\ RLeq(RInt(m), tmax) }

TicksAreTheMultiples ==
    /\ \A k \in DOMAIN h_out.t_ticks :
          h_out.t_ticks[k] \in MultiplesIn(h_in.tmin, h_in.tmax, h_in.step)
    /\ \A m \in MultiplesIn(h_in.tmin, h_in.tmax, h_in.step) :
          \E k \in DOMAIN h_out.t_ticks : h_out.t_ticks[k] = m
    /\ \A k \in 1..(Len(h_out.t_ticks) - 1) : h_out.t_ticks[k] < h_out.t_ticks[k + 1]
    /\ Len(h_out.t_pos) = Len(h_out.t_ticks)

RowsWithinBar ==
    \A k \in DOMAIN h_out.t_pos :
        /\ h_in.v_margin <= h_out.t_pos[k]
        /\ h_out.t_pos[k] <= h_in.v_margin + h_in.height

ExampleTicks ==
    (h_in.tmin = Rat(102, 10) /\ h_in.tmax = Rat(307, 10) /\ h_in.step = 5) =>
        h_out.t_ticks = <<15, 20, 25, 30>>

\* The claim as written: the rows are strictly decreasing for every input.
C7_RowsStrictlyDecreasing ==
    (h_pc = "called" /\ RLt(h_in.tmin, h_in.tmax)) =>
        /\ TicksAreTheMultiples
        /\ RowsWithinBar
        /\ ExampleTicks
        /\ \A k \in 1..(Len(h_out.t_pos) - 1) : h_out.t_pos[k] > h_out.t_pos[k + 1]

\* The claim as amended: the rows never increase, and they are strictly
\* decreasing when step * height >= max - min, so that two neighbouring
\* ticks are at least one row apart.
C7_RowsNeverIncrease ==
    (h_pc = "called" /\ RLt(h_in.tmin, h_in.tmax)) =>
        /\ TicksAreTheMultiples
        /\ RowsWithinBar
        /\ ExampleTicks
        /\ \A k \in 1..(Len(h_out.t_pos) - 1) : h_out.t_pos[k] >= h_out.t_pos[k + 1]
        /\ RLeq(RSub(h_in.tmax, h_in.tmin), RInt(h_in.step * h_in.height)) =>
              \A k \in 1..(Len(h_out.t_pos) - 1) : h_out.t_pos[k] > h_out.t_pos[k + 1]

\* The call of the example, on a bar high enough to keep the four ticks on
\* four rows.
C7_Witness ==
    /\ h_pc = "called"
    /\ h_in.tmin = Rat(102, 10)
    /\ h_in.tmax = Rat(307, 10)
    /\ h_in.step = 5
    /\ h_in.height = SensorRows * ScipyZoom
    /\ h_out.t_ticks = <<15, 20, 25, 30>>
    /\ \A k \in 1..3 : h_out.t_pos[k] > h_out.t_pos[k + 1]

(***************************************************************************)
(* C11.  For every frame and range with min < max, each cell of the grid   *)
(* _temps_to_rescaled_uints returns is (temp - min) * 255 / (max - min)    *)
(* truncated toward zero and clamped to 0..255; a cell below min (a        *)
(* sentinel cell excluded from the min) gives 0, never a wrapped value.    *)
(***************************************************************************)
Clamp(t) == IF t < 0 THEN 0 ELSE IF t > 255 THEN 255 ELSE t

Intensity(temp, tmin, tmax) ==
    RTrunc(RDiv(RMul(RSub(temp, tmin), RInt(255)), RSub(tmax, tmin)))

C11_RescaleTruncatesAndClamps ==
    (/\ h_out.fn = "_temps_to_rescaled_uints"
     /\ RLt(h_out.Tmin, h_out.Tmax)) =>
        /\ h_out.result.raised = "none"
        /\ \A i \in 1..NumCells :
              /\ h_out.result.value.data[i] =
                    RInt(Clamp(Intensity(h_in.frame.data[i], h_out.Tmin, h_out.Tmax)))
              /\ RLt(h_in.frame.data[i], h_out.Tmin) =>
                    h_out.result.value.data[i] = RInt(0)

(***************************************************************************)
(* C12.  On a constructed camera, after any sequence of                    *)
(* update_image_frame, update_raw_image_only, get_current_raw_image_frame  *)
(* and get_current_image_frame calls, _current_frame_processed is true     *)
(* whenever a call has returned; and get_current_image_frame, called with  *)
(* no new frame pulled since the last render, returns the image rendered   *)
(* before, with no capture, range, rescale, repair or render step run.     *)
(***************************************************************************)
FrameMethods ==
    {"update_image_frame", "update_raw_image_only", "get_current_raw_image_frame",
     "get_current_image_frame"}

ProcessedAfterEveryReturn ==
    (pc = "live" /\ last_call.op \in FrameMethods /\ last_call.raised = "none") =>
        current_frame_processed

GetReturnsTheRenderedImage ==
    (pc = "live" /\ current_frame_processed
        /\ last_call'.op = "get_current_image_frame") =>
        /\ last_call'.raised = "none"
        /\ image.stage = "complete"
        /\ image' = image
        /\ raw_image' = raw_image
        /\ temp_min' = temp_min
        /\ temp_max' = temp_max
        /\ current_frame_processed'
        /\ ~last_call'.pulled
        /\ ~last_call'.rendered
        /\ last_call'.dead_found = <<>>

============================================================================
